---- MODULE Spec2Model ----
(***************************************************************************)
(* A model of the CHIP-8 machine of abusch/chip8rs: the Cpu (cpu.rs), its  *)
(* Registers and Stack, the Interconnect (interconnect.rs), the Ram        *)
(* (ram.rs) and the display Gfx (gfx.rs).                                  *)
(*                                                                         *)
(* A panic of the Rust code ends the process; the model records it in the  *)
(* variable fault, after which no operation is enabled.                    *)
(***************************************************************************)
EXTENDS Naturals, Sequences, FiniteSets

VARIABLES
    pc,           \* Cpu.pc: u16
    V,            \* Cpu.regs.V0 .. VF, indexed 0..15: u8 each
    I,            \* Cpu.regs.I: u16
    st,           \* Cpu.stack.st: [u16; 16], indexed 0..15
    sp,           \* Cpu.stack.sp: u16
    ram,          \* Interconnect.ram: 4096 bytes
    buf,          \* Interconnect.gfx.buf: 64*32 bytes
    dirty,        \* Interconnect.gfx.dirty
    delay_timer,  \* Interconnect.delay_timer: u8
    sound_timer,  \* Interconnect.sound_timer: u8
    keys,         \* Interconnect.keys: [bool; 16]
    fault,        \* "none", or the panic that ended the process
    last,         \* history: the operation performed last, its inputs and its result
    shadow        \* history: the addresses pushed and not yet popped, oldest first

vars == <<pc, V, I, st, sp, ram, buf, dirty, delay_timer, sound_timer, keys, fault, last, shadow>>

----------------------------------------------------------------------------
(* Program constants *)

W == 64
H == 32
RAM_SIZE == 4096
STACK_SIZE == 16
PROG_ADDR == 512
FONT_DATA_ADDR == 80

(* Bounds of the model *)

\* the driver presses and releases the first NumKeys of KeyList only
NumKeys == 2
\* the longest chain of nested calls among the programs is MaxChain
MaxChain == 17
\* the register values the generated programs load are the first NumVals of RegVals
NumVals == 3
\* the stack is driven with the addresses PROG_ADDR + 2 i, i in 0 .. MaxPushVal, ...
MaxPushVal == 1
\* ... below the depth MaxBranchDepth, and with one address per depth above it
MaxBranchDepth == 3
\* the display is driven with the first NumPlaces of Places
NumPlaces == 4
\* runs of up to MaxTicks ticks in a row are compared with max(t - k, 0)
MaxTicks == 4

----------------------------------------------------------------------------
(* Integer arithmetic of the machine's widths *)

U8 == 256
U16 == 65536

RECURSIVE Pow2(_)
Pow2(n) == IF n = 0 THEN 1 ELSE 2 * Pow2(n - 1)

\* bit k (0 = least significant) of a
Bit(a, k) == (a \div Pow2(k)) % 2

RECURSIVE BitOp(_, _, _, _)
\* the bitwise combination of a and b over their lowest n bits; f is "and", "or" or "xor"
BitOp(f, a, b, n) ==
    IF n = 0 THEN 0
    ELSE LET x == a % 2
             y == b % 2
             r == CASE f = "and" -> x * y
                    [] f = "or"  -> IF x + y > 0 THEN 1 ELSE 0
                    [] f = "xor" -> (x + y) % 2
         IN  r + 2 * BitOp(f, a \div 2, b \div 2, n - 1)

\* the operators &, | and ^ on bytes
BitAnd(a, b) == BitOp("and", a, b, 8)
BitOr(a, b)  == BitOp("or", a, b, 8)
BitXor(a, b) == BitOp("xor", a, b, 8)

\* the bytes of a sequence of 16-bit opcodes, big-endian
RECURSIVE Bytes(_)
Bytes(ops) ==
    IF ops = <<>> THEN <<>>
    ELSE <<Head(ops) \div 256, Head(ops) % 256>> \o Bytes(Tail(ops))

----------------------------------------------------------------------------
(* Stack (cpu.rs) *)

StackNew == [st |-> [i \in 0..(STACK_SIZE - 1) |-> 0], sp |-> 0]

\* a bug: the slot is written before the depth is incremented
StackPushSlotFirst(s, v) ==
    IF ~(s.sp < 16) THEN [st |-> s.st, sp |-> s.sp, fault |-> "stack overflow"]
    ELSE [st |-> [s.st EXCEPT ![s.sp] = v], sp |-> s.sp + 1, fault |-> "none"]

\* Stack::push: assert sp < 16; sp += 1; st[sp] = v.  st has 16 slots, 0..15, so
\* the write at sp = 16 is out of the array's bounds and panics.
StackPush(s, v) ==
    IF ~(s.sp < 16) THEN [st |-> s.st, sp |-> s.sp, fault |-> "stack overflow"]
    ELSE IF s.sp + 1 >= STACK_SIZE
         THEN [st |-> s.st, sp |-> s.sp + 1, fault |-> "index out of bounds"]
         ELSE [st |-> [s.st EXCEPT ![s.sp + 1] = v], sp |-> s.sp + 1, fault |-> "none"]

\* Stack::pop: assert sp > 0; v = st[sp]; sp -= 1; v
StackPop(s) ==
    IF ~(s.sp > 0) THEN [st |-> s.st, sp |-> s.sp, ret |-> 0, fault |-> "stack underflow"]
    ELSE IF s.sp >= STACK_SIZE
         THEN [st |-> s.st, sp |-> s.sp, ret |-> 0, fault |-> "index out of bounds"]
         ELSE [st |-> s.st, sp |-> s.sp - 1, ret |-> s.st[s.sp], fault |-> "none"]

----------------------------------------------------------------------------
(* Ram (ram.rs) *)

RamDefault == [a \in 0..(RAM_SIZE - 1) |-> 0]

\* Ram::load_at: the slice addr .. addr + len must lie in the store
RamLoadAt(r, addr, data) ==
    IF addr + Len(data) > RAM_SIZE THEN [ram |-> r, fault |-> "index out of bounds"]
    ELSE [ram |-> [a \in 0..(RAM_SIZE - 1) |->
                     IF a >= addr /\ a < addr + Len(data) THEN data[a - addr + 1] ELSE r[a]],
          fault |-> "none"]

\* Ram::get_sprite: the slice addr .. addr + height.  addr + height is a u16 sum:
\* past 65535 it panics (checked build) or wraps to a value below addr, and the
\* slice then panics for its start lying after its end.
RamGetSprite(r, addr, height) ==
    IF addr + height > RAM_SIZE THEN [data |-> <<>>, fault |-> "index out of bounds"]
    ELSE [data |-> [k \in 1..height |-> r[addr + k - 1]], fault |-> "none"]

----------------------------------------------------------------------------
(* Gfx (gfx.rs) *)

GfxCleared == [i \in 0..(W * H - 1) |-> 0]

\* a bug: the pixel is overwritten instead of XORed
GfxSetOverwrite(b, x, y, v) ==
    IF x < W /\ y < H
    THEN [buf |-> [b EXCEPT ![y * W + x] = v], ret |-> (b[y * W + x] # 0 /\ v # 0)]
    ELSE [buf |-> b, ret |-> FALSE]

\* a bug: the collision is decided on the pixel after the XOR
GfxSetPostXor(b, x, y, v) ==
    IF x < W /\ y < H
    THEN LET new_pixel == BitXor(b[y * W + x], v)
         IN  [buf |-> [b EXCEPT ![y * W + x] = new_pixel], ret |-> (new_pixel # 0 /\ v # 0)]
    ELSE [buf |-> b, ret |-> FALSE]

\* a set that wraps a pixel past an edge around to the opposite edge
GfxSetWrapping(b, x, y, v) ==
    LET pixel_index == (y % H) * W + (x % W)
    IN  [buf |-> [b EXCEPT ![pixel_index] = BitXor(b[pixel_index], v)],
         ret |-> (b[pixel_index] # 0 /\ v # 0)]

\* Gfx::set: XOR v into the pixel at (x, y) if it is on screen; true iff the old
\* pixel and v are both nonzero
GfxSet(b, x, y, v) ==
    IF x < W /\ y < H
    THEN LET pixel_index == y * W + x
             old_pixel == b[pixel_index]
             new_pixel == BitXor(old_pixel, v)
         IN  [buf |-> [b EXCEPT ![pixel_index] = new_pixel],
              ret |-> (old_pixel # 0 /\ v # 0)]
    ELSE [buf |-> b, ret |-> FALSE]

RECURSIVE GfxDrawRow(_, _, _, _, _, _)
\* the inner loop of Gfx::draw_sprite over dx, from dx on, for the sprite byte of
\* one row drawn at row y; c is the collision so far.
\* sprite_byte & (0x80 >> dx) is bit 7 - dx of the byte, in place.
GfxDrawRow(b, c, x, y, sprite_byte, dx) ==
    IF dx >= 8 THEN [buf |-> b, ret |-> c]
    ELSE LET bit == Bit(sprite_byte, 7 - dx) * Pow2(7 - dx)
             pixel == IF bit = 0 THEN 0 ELSE 255
             r == GfxSet(b, x + dx, y, pixel)
         IN  \* collision |= self.set(x + dx, y + dy, pixel)
             IF c \/ r.ret THEN GfxDrawRow(r.buf, TRUE, x, y, sprite_byte, dx + 1)
             ELSE GfxDrawRow(r.buf, FALSE, x, y, sprite_byte, dx + 1)

RECURSIVE GfxDrawFrom(_, _, _, _, _, _, _)
\* the outer loop of Gfx::draw_sprite over dy, from dy on
GfxDrawFrom(b, c, x, y, height, data, dy) ==
    IF dy >= height THEN [buf |-> b, ret |-> c]
    ELSE LET r == GfxDrawRow(b, c, x, y + dy, data[dy + 1], 0)
         IN  GfxDrawFrom(r.buf, r.ret, x, y, height, data, dy + 1)

\* a draw that takes the origin as it is given, without the remainders
GfxDrawSpriteUnwrapped(b, x, y, height, data) ==
    GfxDrawFrom(b, FALSE, x, y, height, data, 0)

\* Gfx::draw_sprite (the dirty flag is set by the caller of this operator)
GfxDrawSprite(b, x, y, height, data) ==
    GfxDrawFrom(b, FALSE, x % W, y % H, height, data, 0)

----------------------------------------------------------------------------
(* Interconnect (interconnect.rs) *)

\* a fetch whose addresses wrap around the end of the memory
FetchOpcodeWrapping(r, p) ==
    [opcode |-> r[p % RAM_SIZE] * 256 + r[(p + 1) % RAM_SIZE], fault |-> "none"]

\* Interconnect::fetch_opcode: (ram[pc] << 8) | ram[pc + 1]; either index panics
\* when it is not below 4096
FetchOpcode(r, p) ==
    IF p >= RAM_SIZE \/ p + 1 >= RAM_SIZE THEN [opcode |-> 0, fault |-> "index out of bounds"]
    ELSE [opcode |-> r[p] * 256 + r[p + 1], fault |-> "none"]

\* a draw that marks the display dirty only when it changed a pixel
InterconnectDrawSpriteOnChange(m, addr, vx, vy, n) ==
    LET s == RamGetSprite(m.ram, addr, n)
    IN  IF s.fault # "none" THEN [m EXCEPT !.fault = s.fault]
        ELSE LET d == GfxDrawSprite(m.buf, vx, vy, n, s.data)
             IN  [m EXCEPT !.buf = d.buf, !.dirty = (m.dirty \/ d.buf # m.buf),
                           !.collision = d.ret]

\* Interconnect::draw_sprite: the sprite is sliced out of the ram, then drawn
InterconnectDrawSprite(m, addr, vx, vy, n) ==
    LET s == RamGetSprite(m.ram, addr, n)
    IN  IF s.fault # "none" THEN [m EXCEPT !.fault = s.fault]
        ELSE LET d == GfxDrawSprite(m.buf, vx, vy, n, s.data)
             IN  [m EXCEPT !.buf = d.buf, !.dirty = TRUE, !.collision = d.ret]

\* a tick that decrements with wrapping_sub: 0 becomes 255
InterconnectTickWrapping(m) ==
    [m EXCEPT !.delay_timer = (m.delay_timer + U8 - 1) % U8,
              !.sound_timer = (m.sound_timer + U8 - 1) % U8]

\* Interconnect::tick
InterconnectTick(m) ==
    [m EXCEPT !.delay_timer = IF m.delay_timer > 0 THEN m.delay_timer - 1 ELSE m.delay_timer,
              !.sound_timer = IF m.sound_timer > 0 THEN m.sound_timer - 1 ELSE m.sound_timer]

----------------------------------------------------------------------------
(* Registers (cpu.rs) *)

RegistersDefault == [i \in 0..15 |-> 0]

\* the flag with the opposite polarity: VF = 1 when no carry or borrow occurred
SetCarryInverted(m, flag) == [m EXCEPT !.V[15] = IF flag THEN 0 ELSE 1]

\* Registers::set_carry
SetCarry(m, flag) == [m EXCEPT !.V[15] = IF flag THEN 1 ELSE 0]

\* the fields of an opcode, the masks and shifts written as division and remainder:
\* (opcode & 0x0F00) >> 8, (opcode & 0x00F0) >> 4, opcode & 0x000F, opcode & 0x00FF,
\* opcode & 0x0FFF, and (opcode & 0xF000) >> 12 for the arm of the outer match
OpX(opcode) == (opcode \div 256) % 16
OpY(opcode) == (opcode \div 16) % 16
OpN(opcode) == opcode % 16
OpNN(opcode) == opcode % 256
OpNNN(opcode) == opcode % 4096
OpGroup(opcode) == opcode \div 4096

Panic(m, msg) == [m EXCEPT !.fault = msg]

----------------------------------------------------------------------------
(* Cpu::emulate_cycle (cpu.rs), one operator per arm of the match *)

\* 0x0000: 00E0 clear the screen, 00EE return from subroutine, else panic
Exec0(m, opcode) ==
    IF opcode = 224
    THEN [m EXCEPT !.buf = GfxCleared, !.dirty = TRUE, !.pc = m.pc + 2]
    ELSE IF opcode = 238
    THEN LET r == StackPop([st |-> m.st, sp |-> m.sp])
         IN  IF r.fault # "none" THEN Panic(m, r.fault)
             ELSE [m EXCEPT !.st = r.st, !.sp = r.sp, !.pc = r.ret + 2]
    ELSE Panic(m, "unimplemented opcode")

\* 0x1000: jump
Exec1(m, opcode) == [m EXCEPT !.pc = OpNNN(opcode)]

\* a bug: the address after the call is pushed, as most interpreters do
Exec2PushNext(m, opcode) ==
    LET r == StackPush([st |-> m.st, sp |-> m.sp], m.pc + 2)
    IN  IF r.fault # "none" THEN [m EXCEPT !.sp = r.sp, !.fault = r.fault]
        ELSE [m EXCEPT !.st = r.st, !.sp = r.sp, !.pc = OpNNN(opcode)]

\* 0x2000: call subroutine
Exec2(m, opcode) ==
    LET r == StackPush([st |-> m.st, sp |-> m.sp], m.pc)
    IN  IF r.fault # "none" THEN [m EXCEPT !.sp = r.sp, !.fault = r.fault]
        ELSE [m EXCEPT !.st = r.st, !.sp = r.sp, !.pc = OpNNN(opcode)]

\* 0x3000: skip the next instruction if VX == NN
Exec3(m, opcode) ==
    IF m.V[OpX(opcode)] = OpNN(opcode) THEN [m EXCEPT !.pc = m.pc + 4]
    ELSE [m EXCEPT !.pc = m.pc + 2]

\* 0x4000: skip the next instruction if VX != NN
Exec4(m, opcode) ==
    IF m.V[OpX(opcode)] # OpNN(opcode) THEN [m EXCEPT !.pc = m.pc + 4]
    ELSE [m EXCEPT !.pc = m.pc + 2]

\* 0x5000: skip the next instruction if VX == VY (the low nibble is not looked at)
Exec5(m, opcode) ==
    IF m.V[OpX(opcode)] = m.V[OpY(opcode)] THEN [m EXCEPT !.pc = m.pc + 4]
    ELSE [m EXCEPT !.pc = m.pc + 2]

\* 0x6000: set VX to NN
Exec6(m, opcode) == [m EXCEPT !.V[OpX(opcode)] = OpNN(opcode), !.pc = m.pc + 2]

\* an addition that stops at 255 instead of wrapping
Exec7Saturating(m, opcode) ==
    LET sum == m.V[OpX(opcode)] + OpNN(opcode)
    IN  [m EXCEPT !.V[OpX(opcode)] = IF sum >= U8 THEN U8 - 1 ELSE sum, !.pc = m.pc + 2]

\* 0x7000: add NN to VX, wrapping
Exec7(m, opcode) ==
    [m EXCEPT !.V[OpX(opcode)] = (m.V[OpX(opcode)] + OpNN(opcode)) % U8, !.pc = m.pc + 2]

\* 0x8000: register to register operations
Exec8(m, opcode) ==
    LET x == OpX(opcode)
        y == OpY(opcode)
        op == OpN(opcode)
        vx == m.V[x]
        vy == m.V[y]
        done(n) == [n EXCEPT !.pc = m.pc + 2]
    IN  CASE op = 0 -> done([m EXCEPT !.V[x] = vy])
          [] op = 1 -> done([m EXCEPT !.V[x] = BitOr(vx, vy)])
          [] op = 2 -> done([m EXCEPT !.V[x] = BitAnd(vx, vy)])
          [] op = 3 -> done([m EXCEPT !.V[x] = BitXor(vx, vy)])
          [] op = 4 -> done(SetCarry([m EXCEPT !.V[x] = (vx + vy) % U8], vx + vy >= U8))
          [] op = 5 -> done(SetCarry([m EXCEPT !.V[x] = (vx + U8 - vy) % U8], vx < vy))
          [] op = 6 -> LET lsb == vx % 2
                       IN  done(SetCarry([m EXCEPT !.V[x] = vy \div 2], lsb = 1))
          [] op = 7 -> done(SetCarry([m EXCEPT !.V[x] = (vy + U8 - vx) % U8], vy < vx))
          [] op = 14 -> LET msb == Bit(vx, 7) * 128
                        IN  done(SetCarry([m EXCEPT !.V[x] = (vy * 2) % U8], msb = 1))
          [] OTHER -> Panic(m, "invalid opcode")

\* 0x9000: skip the next instruction if VX != VY (the low nibble is not looked at)
Exec9(m, opcode) ==
    IF m.V[OpX(opcode)] # m.V[OpY(opcode)] THEN [m EXCEPT !.pc = m.pc + 4]
    ELSE [m EXCEPT !.pc = m.pc + 2]

\* 0xA000: set I to NNN
ExecA(m, opcode) == [m EXCEPT !.I = OpNNN(opcode), !.pc = m.pc + 2]

\* 0xD000: draw the sprite at I; the result of draw_sprite is dropped
ExecD(m, opcode) ==
    LET r == InterconnectDrawSprite(m, m.I, m.V[OpX(opcode)], m.V[OpY(opcode)], OpN(opcode))
    IN  IF r.fault # "none" THEN r ELSE [r EXCEPT !.pc = m.pc + 2]

\* a key skip that masks the key index to 4 bits
ExecEMasked(m, opcode) ==
    LET vx == m.V[OpX(opcode)] % 16
        op == OpNN(opcode)
    IN  CASE op = 158 -> IF m.keys[vx] THEN [m EXCEPT !.pc = m.pc + 4]
                         ELSE [m EXCEPT !.pc = m.pc + 2]
          [] op = 161 -> IF ~m.keys[vx] THEN [m EXCEPT !.pc = m.pc + 4]
                         ELSE [m EXCEPT !.pc = m.pc + 2]
          [] OTHER -> Panic(m, "Unkown opcode")

\* 0xE000: skip on the state of key VX; keys has 16 entries
ExecE(m, opcode) ==
    LET vx == m.V[OpX(opcode)]
        op == OpNN(opcode)
    IN  CASE op = 158 -> IF vx >= 16 THEN Panic(m, "index out of bounds")
                         ELSE IF m.keys[vx] THEN [m EXCEPT !.pc = m.pc + 4]
                         ELSE [m EXCEPT !.pc = m.pc + 2]
          [] op = 161 -> IF vx >= 16 THEN Panic(m, "index out of bounds")
                         ELSE IF ~m.keys[vx] THEN [m EXCEPT !.pc = m.pc + 4]
                         ELSE [m EXCEPT !.pc = m.pc + 2]
          [] OTHER -> Panic(m, "Unkown opcode")

\* keys.iter().position(|v| *v): the lowest index of a key that is down, 16 for None
FirstKeyDown(k) ==
    IF \E i \in 0..15 : k[i]
    THEN CHOOSE i \in 0..15 : k[i] /\ \A j \in 0..15 : j < i => ~k[j]
    ELSE 16

RECURSIVE DumpRegsExclusive(_, _, _)
\* a dump that stops before VX: the loop over 0 .. x without x
DumpRegsExclusive(m, i, x) ==
    IF i >= x THEN m
    ELSE IF m.I >= RAM_SIZE THEN Panic(m, "index out of bounds")
    ELSE DumpRegsExclusive([m EXCEPT !.ram[m.I] = m.V[i], !.I = m.I + 1], i + 1, x)

RECURSIVE DumpRegs(_, _, _)
\* the loop of FX55 from register i on: ram[I] = V[i]; I += 1
DumpRegs(m, i, x) ==
    IF i > x THEN m
    ELSE IF m.I >= RAM_SIZE THEN Panic(m, "index out of bounds")
    ELSE DumpRegs([m EXCEPT !.ram[m.I] = m.V[i], !.I = m.I + 1], i + 1, x)

RECURSIVE LoadRegs(_, _, _)
\* the loop of FX65 from register i on: V[i] = ram[I]; I += 1
LoadRegs(m, i, x) ==
    IF i > x THEN m
    ELSE IF m.I >= RAM_SIZE THEN Panic(m, "index out of bounds")
    ELSE LoadRegs([m EXCEPT !.V[i] = m.ram[m.I], !.I = m.I + 1], i + 1, x)

\* FX0A, the arm alone: on a key down, VX = its index and pc += 2; else nothing
ExecFKeyWait(m, x) ==
    LET idx == FirstKeyDown(m.keys)
    IN  IF idx < 16 THEN [m EXCEPT !.V[x] = idx, !.pc = m.pc + 2] ELSE m

\* 0xF000: the arm of the inner match is executed, then pc += 2 for every arm.
\* checked: the build panics on integer overflow (FX1E adds to I as a u16)
ExecF(m, opcode, checked) ==
    LET x == OpX(opcode)
        op == OpNN(opcode)
        vx == m.V[x]
        r == CASE op = 7 -> [m EXCEPT !.V[x] = m.delay_timer]
               [] op = 10 -> ExecFKeyWait(m, x)
               [] op = 21 -> [m EXCEPT !.delay_timer = vx]
               [] op = 24 -> [m EXCEPT !.sound_timer = vx]
               [] op = 30 -> IF m.I + vx >= U16 /\ checked
                             THEN Panic(m, "attempt to add with overflow")
                             ELSE [m EXCEPT !.I = (m.I + vx) % U16]
               [] op = 41 -> [m EXCEPT !.I = FONT_DATA_ADDR + vx * 5]
               [] op = 51 ->
                    LET units == vx % 10
                        tens == (vx \div 10) % 10
                        hundreds == ((vx \div 10) \div 10) % 10
                    IN  IF m.I >= RAM_SIZE THEN Panic(m, "index out of bounds")
                        ELSE IF m.I + 1 >= RAM_SIZE
                        THEN Panic([m EXCEPT !.ram[m.I] = hundreds], "index out of bounds")
                        ELSE IF m.I + 2 >= RAM_SIZE
                        THEN Panic([m EXCEPT !.ram = [m.ram EXCEPT ![m.I] = hundreds,
                                                                   ![m.I + 1] = tens]],
                                   "index out of bounds")
                        ELSE [m EXCEPT !.ram = [m.ram EXCEPT ![m.I] = hundreds,
                                                             ![m.I + 1] = tens,
                                                             ![m.I + 2] = units]]
               [] op = 85 -> DumpRegs(m, 0, x)
               [] op = 101 -> LoadRegs(m, 0, x)
               [] OTHER -> Panic(m, "unknown opcode")
    IN  IF r.fault # "none" THEN r ELSE [r EXCEPT !.pc = r.pc + 2]

\* the outer match of Cpu::emulate_cycle on opcode & 0xF000
Decode(m, opcode, checked) ==
    LET g == OpGroup(opcode)
    IN  CASE g = 0 -> Exec0(m, opcode)
          [] g = 1 -> Exec1(m, opcode)
          [] g = 2 -> Exec2(m, opcode)
          [] g = 3 -> Exec3(m, opcode)
          [] g = 4 -> Exec4(m, opcode)
          [] g = 5 -> Exec5(m, opcode)
          [] g = 6 -> Exec6(m, opcode)
          [] g = 7 -> Exec7(m, opcode)
          [] g = 8 -> Exec8(m, opcode)
          [] g = 9 -> Exec9(m, opcode)
          [] g = 10 -> ExecA(m, opcode)
          [] g = 13 -> ExecD(m, opcode)
          [] g = 14 -> ExecE(m, opcode)
          [] g = 15 -> ExecF(m, opcode, checked)
          [] OTHER -> Panic(m, "unknown opcode")

\* a cycle whose 8XY6 takes the flag from the least-significant bit of VY
CpuEmulateCycleFlagFromVY(m, checked) ==
    LET f == FetchOpcode(m.ram, m.pc)
        r == Decode(m, f.opcode, checked)
    IN  IF f.fault # "none" THEN Panic(m, f.fault)
        ELSE IF OpGroup(f.opcode) = 8 /\ OpN(f.opcode) = 6
        THEN SetCarry(r, m.V[OpY(f.opcode)] % 2 = 1)
        ELSE r

\* a cycle that begins with a tick of the timers
CpuEmulateCycleTicking(m, checked) ==
    LET t == InterconnectTick(m)
        f == FetchOpcode(t.ram, t.pc)
    IN  IF f.fault # "none" THEN Panic(t, f.fault) ELSE Decode(t, f.opcode, checked)

\* a cycle whose FX33 stores the digits in the opposite order, the units first
CpuEmulateCycleUnitsFirst(m, checked) ==
    LET f == FetchOpcode(m.ram, m.pc)
        r == Decode(m, f.opcode, checked)
    IN  IF f.fault # "none" THEN Panic(m, f.fault)
        ELSE IF OpGroup(f.opcode) = 15 /\ OpNN(f.opcode) = 51 /\ r.fault = "none"
        THEN [r EXCEPT !.ram = [r.ram EXCEPT ![m.I] = r.ram[m.I + 2],
                                             ![m.I + 2] = r.ram[m.I]]]
        ELSE r

\* Cpu::emulate_cycle: fetch, then decode and execute
CpuEmulateCycle(m, checked) ==
    LET f == FetchOpcode(m.ram, m.pc)
    IN  IF f.fault # "none" THEN Panic(m, f.fault) ELSE Decode(m, f.opcode, checked)

----------------------------------------------------------------------------
(* The machine as a record, and the programs it is started on *)

Machine ==
    [pc |-> pc, V |-> V, I |-> I, st |-> st, sp |-> sp, ram |-> ram, buf |-> buf,
     dirty |-> dirty, delay_timer |-> delay_timer, sound_timer |-> sound_timer,
     keys |-> keys, fault |-> fault, collision |-> FALSE]

FONT_DATA ==
    << 240, 144, 144, 144, 240,   32,  96,  32,  32, 112,
       240,  16, 240, 128, 240,  240,  16, 240,  16, 240,
       144, 144, 240,  16,  16,  240, 128, 240,  16, 240,
       240, 128, 240, 144, 240,  240,  16,  32,  64,  64,
       240, 144, 240, 144, 240,  240, 144, 240,  16, 240,
       240, 144, 240, 144, 144,  224, 144, 224, 144, 224,
       240, 128, 128, 128, 240,  224, 144, 144, 144, 224,
       240, 128, 240, 128, 240,  240, 128, 240, 128, 128 >>

\* no opcode was fetched
NoOpcode == U16

\* register values the generated programs load
RegVals == <<0, 255, 1, 128, 16, 7, 200, 100>>
Vals == {RegVals[i] : i \in 1..(IF NumVals < Len(RegVals) THEN NumVals ELSE Len(RegVals))}

\* one opcode of every arm of the decoder, on registers V1 and V2 (and VF)
TestOps ==
    { 224, 238, 291,                          \* 00E0 00EE 0123
      4864, 8960,                             \* 1300 2300
      12544, 12799, 16640, 16895,             \* 3100 31FF 4100 41FF
      20768, 20769, 37152, 37155,             \* 5120 5121 9120 9123
      24917, 28929, 29183,                    \* 6155 7101 71FF
      33056, 33057, 33058, 33059, 33060,      \* 8120 .. 8124
      33061, 33062, 33063, 33070, 33064,      \* 8125 8126 8127 812E 8128
      36644, 36645, 36646, 36647, 36654,      \* 8F24 8F25 8F26 8F27 8F2E
      41728, 45824, 49663,                    \* A300 B300 C1FF
      53537, 53551,                           \* D121 D12F
      57758, 57761, 57600,                    \* E19E E1A1 E100
      61703, 61706, 61717, 61720, 61726,      \* F107 F10A F115 F118 F11E
      61737, 61747, 61781, 61797, 61951 }     \* F129 F133 F155 F165 F1FF

\* V1 = a; V2 = b; I = 0x050 (the glyph 0); op
OpRom(a, b, op) == <<24832 + a, 25088 + b, 41040, op>>

\* k nested subroutines: the one of level i, at PROG_ADDR + 4 i, calls the next level
\* and returns; the innermost only returns.  The return of level 0 finds the stack
\* empty.
RECURSIVE DeepRom(_, _)
DeepRom(k, at) ==
    IF k = 0 THEN <<238>> ELSE <<8192 + at + 4, 238>> \o DeepRom(k - 1, at + 4)

\* 200: call 206; 202: call 206; 204: jump 204; 206: call 20A; 208: return;
\* 20A: V1 = 5; 20C: return
NestedRom == <<8710, 8710, 4612, 8714, 238, 24837, 238>>

\* 200: I = 0x050; 202: draw V0 V0 5; 204: V2 = VF; 206: draw V0 V0 5; 208: V3 = VF;
\* 20A: wait for a key in V4; 20C: V5 = 1; 20E: V6 = 2; 210: jump 210
DrawKeyRom == <<41040, 53253, 33520, 53253, 33776, 62474, 25857, 26114, 4624>>

\* 200: V1 = 2; 202: delay_timer = V1; 204: V2 = delay_timer; 206: V3 = 1;
\* 208: sound_timer = V3; 20A: V4 = delay_timer; 20C: jump 20C
TimerRom == <<24834, 61717, 61959, 25345, 62232, 62471, 4620>>

\* 200: V0 = 1; 202: V1 = 2; 204: V2 = 3; 206: V3 = 4; 208: V5 = 9; 20A: I = 0x300;
\* 20C: dump V0..V3; 20E .. 214: V0 = V1 = V2 = V3 = 0; 216: I = 0x300;
\* 218: load V0..V3; 21A: jump 21A
RegRom == <<24577, 24834, 25091, 25348, 25865, 41728, 62293,
            24576, 24832, 25088, 25344, 41728, 62309, 4634>>

\* 200: I = 0x300, where the memory is zero; 202: draw one row (no bit of it is set);
\* 204: clear the screen; 206: draw no row; 208: V1 = 5; 20A: jump 20A
DirtyRom == <<41728, 53249, 224, 53248, 24837, 4618>>

\* the programs of the machine run with its driver
Roms == {DeepRom(k, PROG_ADDR) : k \in 0..MaxChain}
            \cup {NestedRom, DrawKeyRom, TimerRom, RegRom, DirtyRom}

\* the programs that execute one opcode of each kind
OpRoms == {OpRom(a, b, op) : a \in Vals, b \in Vals, op \in TestOps}

\* the opcodes that access the memory at I: D125, F133, F155, F165
EdgeOps == {53541, 61747, 61781, 61797}

\* the addresses 0xFFB .. 0xFFF, next to the end of the memory
EdgeAddrs == {4091, 4092, 4093, 4094, 4095}

\* V0 = 7; V1 = 1; I = at; op
EdgeRom(at, op) == <<24583, 24833, 40960 + at, op>>

\* V1 = 255; I = 0xFFF; I += V1 (I = 0x10FE, past the end of the memory); op
FarRom(op) == <<25087, 45055, 61726, op>>

\* 200: jump 0xFFF, where the second byte of an opcode lies past the end
JumpEndRom == <<8191>>

\* 200: V0 = 0x61; 202: V1 = 0; 204: I = 0xFFE; 206: dump V0..V1; 208: jump 0xFFE;
\* FFE: V1 = 0 (the opcode 6100 the dump wrote), after which pc is 0x1000
RunOffRom == <<24673, 24832, 45054, 61781, 8190>>

\* the flag-setting opcodes with VF as the destination: 8F24 8F25 8F26 8F27 8F2E
FlagOps == {36644, 36645, 36646, 36647, 36654}

\* VF = a; V2 = b; op
FlagRom(a, b, op) == <<28416 + a, 25088 + b, op>>

\* the programs that execute a flag-setting opcode on VF
FlagRoms == {FlagRom(a, b, op) : a \in Vals, b \in Vals, op \in FlagOps}

\* the programs that access the memory at its end and past it
EdgeRoms ==
    {EdgeRom(at, op) : at \in EdgeAddrs, op \in EdgeOps} \cup {FarRom(op) : op \in EdgeOps}
        \cup {JumpEndRom, RunOffRom}

\* the keys the driver presses
KeyList == <<3, 1, 15, 0>>
Keys == {KeyList[i] : i \in 1..(IF NumKeys < Len(KeyList) THEN NumKeys ELSE Len(KeyList))}

NoLast(kind) ==
    [kind |-> kind, opcode |-> NoOpcode, pc |-> 0, sp |-> 0, V |-> RegistersDefault,
     I |-> 0, keys |-> [k \in 0..15 |-> FALSE], arg |-> <<>>, ret |-> FALSE, val |-> 0,
     dirty |-> FALSE]

\* the shadow stack after a cycle that executed opcode without a fault
ShadowAfter(sh, opcode, at, flt) ==
    IF flt # "none" \/ opcode = NoOpcode THEN sh
    ELSE IF OpGroup(opcode) = 2 THEN Append(sh, at)
    ELSE IF opcode = 238 THEN SubSeq(sh, 1, Len(sh) - 1)
    ELSE sh

----------------------------------------------------------------------------
(* The machine: construction, the cycle, and the driver's operations *)

\* Cpu::new, Registers::default, Stack::new, Gfx::new, Ram::default and the two
\* load_at of the font and of the program
Constructed(rom) ==
    /\ pc = PROG_ADDR
    /\ V = RegistersDefault
    /\ I = 0
    /\ st = StackNew.st
    /\ sp = StackNew.sp
    /\ ram = RamLoadAt(RamLoadAt(RamDefault, FONT_DATA_ADDR, FONT_DATA).ram,
                       PROG_ADDR, Bytes(rom)).ram
    /\ buf = GfxCleared
    /\ dirty = TRUE
    /\ delay_timer = 0
    /\ sound_timer = 0
    /\ keys = [k \in 0..15 |-> FALSE]
    /\ fault = "none"
    /\ last = NoLast("init")
    /\ shadow = <<>>

Init == \E rom \in Roms : Constructed(rom)

SetMachine(m) ==
    /\ pc' = m.pc
    /\ V' = m.V
    /\ I' = m.I
    /\ st' = m.st
    /\ sp' = m.sp
    /\ ram' = m.ram
    /\ buf' = m.buf
    /\ dirty' = m.dirty
    /\ delay_timer' = m.delay_timer
    /\ sound_timer' = m.sound_timer
    /\ keys' = m.keys
    /\ fault' = m.fault

\* one call of Cpu::emulate_cycle
EmulateCycle ==
    /\ fault = "none"
    /\ \E checked \in BOOLEAN :
         LET f == FetchOpcode(ram, pc)
             op == IF f.fault = "none" THEN f.opcode ELSE NoOpcode
             m == CpuEmulateCycle(Machine, checked)
         IN  /\ SetMachine(m)
             /\ last' = [kind |-> "cycle", opcode |-> op, pc |-> pc, sp |-> sp, V |-> V,
                         I |-> I, keys |-> keys, arg |-> shadow, ret |-> m.collision,
                         val |-> 0, dirty |-> dirty]
             /\ shadow' = ShadowAfter(shadow, op, pc, m.fault)

\* one call of Interconnect::tick
Tick ==
    /\ fault = "none"
    /\ SetMachine(InterconnectTick(Machine))
    /\ last' = [NoLast("tick") EXCEPT !.arg = <<delay_timer, sound_timer>>]
    /\ UNCHANGED shadow

\* the driver writes the state of one key
SetKey ==
    /\ fault = "none"
    /\ \E k \in Keys, down \in BOOLEAN :
         /\ keys[k] # down
         /\ keys' = [keys EXCEPT ![k] = down]
    /\ last' = NoLast("key")
    /\ UNCHANGED <<pc, V, I, st, sp, ram, buf, dirty, delay_timer, sound_timer, fault, shadow>>

\* Gfx::get_frame
GetFrame ==
    /\ fault = "none"
    /\ dirty' = FALSE
    /\ last' = NoLast("frame")
    /\ UNCHANGED <<pc, V, I, st, sp, ram, buf, delay_timer, sound_timer, keys, fault, shadow>>

Next == EmulateCycle \/ Tick \/ SetKey \/ GetFrame

Spec == Init /\ [][Next]_vars

----------------------------------------------------------------------------
(* The machine executing one opcode of each kind; the driver only sets the keys *)

InitOps == \E rom \in OpRoms \cup EdgeRoms \cup FlagRoms : Constructed(rom)

NextOps == EmulateCycle \/ SetKey

SpecOps == InitOps /\ [][NextOps]_vars


----------------------------------------------------------------------------
(* The Stack driven directly: any sequence of push and pop *)

PushVals(depth) ==
    IF depth < MaxBranchDepth THEN {PROG_ADDR + 2 * i : i \in 0..MaxPushVal}
    ELSE {PROG_ADDR + 2 * depth}

InitStack == Constructed(<<>>)

\* one call of Stack::push
Push ==
    /\ fault = "none"
    /\ \E v \in PushVals(sp) :
         LET r == StackPush([st |-> st, sp |-> sp], v)
         IN  /\ st' = r.st
             /\ sp' = r.sp
             /\ fault' = r.fault
             /\ last' = [NoLast("push") EXCEPT !.sp = sp, !.arg = shadow, !.val = v]
             /\ shadow' = IF r.fault = "none" THEN Append(shadow, v) ELSE shadow
    /\ UNCHANGED <<pc, V, I, ram, buf, dirty, delay_timer, sound_timer, keys>>

\* one call of Stack::pop
Pop ==
    /\ fault = "none"
    /\ LET r == StackPop([st |-> st, sp |-> sp])
       IN  /\ st' = r.st
           /\ sp' = r.sp
           /\ fault' = r.fault
           /\ last' = [NoLast("pop") EXCEPT !.sp = sp, !.arg = shadow, !.val = r.ret]
           /\ shadow' = IF r.fault = "none" THEN SubSeq(shadow, 1, Len(shadow) - 1)
                        ELSE shadow
    /\ UNCHANGED <<pc, V, I, ram, buf, dirty, delay_timer, sound_timer, keys>>

NextStack == Push \/ Pop

SpecStack == InitStack /\ [][NextStack]_vars

----------------------------------------------------------------------------
(* The display driven directly: any sequence of clear, draw_sprite and get_frame *)

\* where sprites are drawn: the origin, the bottom right corner, the origin again
\* through coordinates past the width and the height, ...
Places == << <<0, 0>>, <<62, 31>>, <<64, 32>>, <<3, 0>>, <<255, 255>>, <<60, 20>> >>
PlaceSet == {Places[i] : i \in 1..(IF NumPlaces < Len(Places) THEN NumPlaces ELSE Len(Places))}

\* the sprites that are drawn
Sprites == { <<255>>, <<129, 66>> }

InitGfx == Constructed(<<>>)

\* one call of Gfx::clear
Clear ==
    /\ fault = "none"
    /\ buf' = GfxCleared
    /\ dirty' = TRUE
    /\ last' = NoLast("clear")
    /\ UNCHANGED <<pc, V, I, st, sp, ram, delay_timer, sound_timer, keys, fault, shadow>>

\* one call of Gfx::draw_sprite
DrawSprite ==
    /\ fault = "none"
    /\ \E p \in PlaceSet, data \in Sprites :
         LET r == GfxDrawSprite(buf, p[1], p[2], Len(data), data)
         IN  /\ buf' = r.buf
             /\ dirty' = TRUE
             /\ last' = [NoLast("draw") EXCEPT !.arg = <<p[1], p[2], Len(data), data>>,
                                               !.ret = r.ret]
    /\ UNCHANGED <<pc, V, I, st, sp, ram, delay_timer, sound_timer, keys, fault, shadow>>

NextGfx == Clear \/ DrawSprite \/ GetFrame

SpecGfx == InitGfx /\ [][NextGfx]_vars

----------------------------------------------------------------------------
(* Properties of the cycle *)

IsCycle == last.kind = "cycle" /\ last.opcode # NoOpcode
IsKeyWait(op) == op # NoOpcode /\ OpGroup(op) = 15 /\ OpNN(op) = 10
NoKeyDown(k) == \A i \in 0..15 : ~k[i]

\* the cycle recorded in l executed a conditional skip whose condition held
SkipTaken(l) ==
    LET op == l.opcode
        g == OpGroup(op)
        vx == l.V[OpX(op)]
        vy == l.V[OpY(op)]
    IN  CASE g = 3 -> vx = OpNN(op)
          [] g = 4 -> vx # OpNN(op)
          [] g = 5 -> vx = vy
          [] g = 9 -> vx # vy
          [] g = 14 -> \/ OpNN(op) = 158 /\ vx < 16 /\ l.keys[vx]
                       \/ OpNN(op) = 161 /\ vx < 16 /\ ~l.keys[vx]
          [] OTHER -> FALSE

\* C1: after a cycle that executed its opcode without a fault, the program counter
\* is the previous one plus 2, or plus 4 when a conditional skip was taken, or the
\* target of the jump, call or return that was executed; nothing else.
C1_PcAfterCycle ==
    (IsCycle /\ fault = "none") =>
        \/ pc = last.pc + 2
        \/ pc = last.pc + 4 /\ SkipTaken(last)
        \/ OpGroup(last.opcode) \in {1, 2} /\ pc = OpNNN(last.opcode)
        \/ last.opcode = 238 /\ pc = st[last.sp] + 2

\* C2: a cycle on FX0A with none of the 16 keys down leaves the program counter and
\* the registers as they were, so that the same FX0A is executed by the next cycle.
C2_KeyWaitBlocks ==
    (IsCycle /\ IsKeyWait(last.opcode) /\ NoKeyDown(last.keys)) =>
        (fault = "none" /\ pc = last.pc /\ V = last.V)

\* C3: a cycle on FX0A with a key down sets VX to the lowest index of a key that is
\* down and advances the program counter once, to the instruction after the FX0A.
C3_KeyWaitRelease ==
    (IsCycle /\ IsKeyWait(last.opcode) /\ ~NoKeyDown(last.keys)) =>
        /\ fault = "none"
        /\ V[OpX(last.opcode)] = FirstKeyDown(last.keys)
        /\ pc = last.pc + 2

\* C4: after a cycle on DXYN, VF is 1 if the draw_sprite of that cycle reported a
\* collision and 0 if it did not.
C4_DrawSetsVF ==
    (IsCycle /\ OpGroup(last.opcode) = 13 /\ fault = "none") =>
        V[15] = (IF last.ret THEN 1 ELSE 0)

\* the opcode table of the specification
InOpcodeTable(op) ==
    LET g == OpGroup(op)
    IN  CASE g = 0 -> op \in {224, 238}
          [] g \in {1, 2, 3, 4, 6, 7, 10, 13} -> TRUE
          [] g \in {5, 9} -> OpN(op) = 0
          [] g = 8 -> OpN(op) \in {0, 1, 2, 3, 4, 5, 6, 7, 14}
          [] g = 14 -> OpNN(op) \in {158, 161}
          [] g = 15 -> OpNN(op) \in {7, 10, 21, 24, 30, 41, 51, 85, 101}
          [] OTHER -> FALSE

DecodeFaults == {"unimplemented opcode", "invalid opcode", "Unkown opcode", "unknown opcode"}

\* C10: a cycle that fetches an opcode matching no pattern of the opcode table ends
\* in a decode fault, and executes it as no instruction: the machine state is left
\* as it was.
C10_UnknownOpcodeIsFatal ==
    (IsCycle /\ ~InOpcodeTable(last.opcode)) =>
        (fault \in DecodeFaults /\ pc = last.pc /\ V = last.V /\ I = last.I /\ sp = last.sp)

\* C7: a call that succeeds pushes the address of the call itself and continues at
\* NNN; a return that succeeds continues 2 past the address of the call it matches,
\* the latest call not yet returned from, with the stack depth of before that call.
C7_CallReturnPairing ==
    /\ (IsCycle /\ OpGroup(last.opcode) = 2 /\ fault = "none") =>
           /\ pc = OpNNN(last.opcode)
           /\ sp = last.sp + 1
           /\ st[sp] = last.pc
    /\ (IsCycle /\ last.opcode = 238 /\ fault = "none") =>
           /\ Len(last.arg) > 0
           /\ pc = last.arg[Len(last.arg)] + 2
           /\ sp = Len(last.arg) - 1
    /\ (fault = "none") => sp = Len(shadow)

\* a return from a subroutine called from within a subroutine
C7_Witness ==
    /\ IsCycle /\ last.opcode = 238 /\ fault = "none"
    /\ Len(last.arg) >= 2
    /\ last.arg[Len(last.arg)] # last.arg[Len(last.arg) - 1]
    /\ pc = last.arg[Len(last.arg)] + 2

----------------------------------------------------------------------------
(* Properties of the Stack *)

\* C5: from the empty stack the first 16 pushes succeed, and a push onto 16 entries
\* fails with a stack overflow.  (last.arg holds the entries before the push.)
C5_SixteenPushes ==
    (last.kind = "push") =>
        /\ Len(last.arg) < 16 => fault = "none"
        /\ Len(last.arg) >= 16 => fault = "stack overflow"

\* C6: a pop that succeeds returns the address pushed latest among those not yet
\* popped and leaves the depth one lower, a push that succeeds leaves it one higher
\* with the pushed address on top, and a pop of the empty stack fails with a stack
\* underflow.
C6_StackIsLifo ==
    /\ (last.kind = "pop" /\ fault = "none") =>
           /\ Len(last.arg) > 0
           /\ last.val = last.arg[Len(last.arg)]
           /\ sp = Len(last.arg) - 1
    /\ (last.kind = "pop" /\ Len(last.arg) = 0) => fault = "stack underflow"
    /\ (last.kind = "push" /\ fault = "none") =>
           /\ sp = Len(last.arg) + 1
           /\ st[sp] = last.val

\* a pop that returned the later of two different addresses pushed one after the other
C6_Witness ==
    /\ last.kind = "pop" /\ fault = "none"
    /\ Len(last.arg) >= 2
    /\ last.arg[Len(last.arg)] # last.arg[Len(last.arg) - 1]
    /\ last.val = last.arg[Len(last.arg)]

----------------------------------------------------------------------------
(* Properties of the display *)

\* the sprite pixel (dx, dy) of a sprite drawn at (x, y) is on screen
OnScreen(x, y, dx, dy) == (x % W) + dx < W /\ (y % H) + dy < H

\* the framebuffer index of that pixel
PixelAt(x, y, dx, dy) == ((y % H) + dy) * W + (x % W) + dx

\* the sprite bit of column dx in row dy is set
SpriteBit(data, dx, dy) == Bit(data[dy + 1], 7 - dx) = 1

\* a set sprite bit falls on a pixel that is on screen and set in b
Collides(b, x, y, height, data) ==
    \E dy \in 0..(height - 1), dx \in 0..7 :
        /\ OnScreen(x, y, dx, dy)
        /\ SpriteBit(data, dx, dy)
        /\ b[PixelAt(x, y, dx, dy)] # 0

\* C8: draw_sprite returns true exactly when some set bit of the sprite falls on an
\* on-screen pixel that was set before the draw; so it returns false on a cleared
\* display.
C8_CollisionIsPreXor ==
    [][ (last'.kind = "draw") =>
            (last'.ret <=> Collides(buf, last'.arg[1], last'.arg[2], last'.arg[3],
                                    last'.arg[4])) ]_vars

\* a draw that reported a collision
C8_Witness == last.kind = "draw" /\ last.ret /\ buf # GfxCleared

\* C9: drawing a sprite twice at the same place leaves the framebuffer as it was
\* before the first draw; on a cleared display the first draw of a sprite with a set
\* bit on screen sets exactly the pixels under its set bits and reports no collision,
\* and the second clears them again and reports one.
C9_DrawTwiceRestores ==
    \A p \in PlaceSet, data \in Sprites :
        LET h == Len(data)
            r1 == GfxDrawSprite(buf, p[1], p[2], h, data)
            r2 == GfxDrawSprite(r1.buf, p[1], p[2], h, data)
            covered == {PixelAt(p[1], p[2], dx, dy) : <<dx, dy>> \in
                           {c \in (0..7) \X (0..(h - 1)) :
                               OnScreen(p[1], p[2], c[1], c[2]) /\ SpriteBit(data, c[1], c[2])}}
        IN  /\ r2.buf = buf
            /\ (buf = GfxCleared /\ covered # {}) =>
                   /\ ~r1.ret
                   /\ \A i \in 0..(W * H - 1) : (r1.buf[i] # 0) <=> (i \in covered)
                   /\ r2.ret
                   /\ r2.buf = GfxCleared

\* the second of two draws of a sprite on a cleared display: it reported a collision
\* and the display is cleared again
C9_Witness == last.kind = "draw" /\ last.ret /\ buf = GfxCleared

----------------------------------------------------------------------------
(* Properties of the arithmetic opcodes *)

\* the last step was a cycle on 8XYn with X # F that ended without a fault
IsArith(n) ==
    /\ IsCycle /\ fault = "none"
    /\ OpGroup(last.opcode) = 8 /\ OpN(last.opcode) = n /\ OpX(last.opcode) # 15

\* C11: after a cycle on 8XYE with X # F, VF is bit 7 of VX as it was before the
\* cycle and VX is (VY << 1) mod 256.
C11_ShiftLeftFlag ==
    IsArith(14) =>
        /\ V[15] = Bit(last.V[OpX(last.opcode)], 7)
        /\ V[OpX(last.opcode)] = (last.V[OpY(last.opcode)] * 2) % U8

\* C12: after a cycle on 8XY5 with X # F, VX is (VX - VY) mod 256 and VF is 1 if VX
\* was below VY before the cycle (a borrow) and 0 if not; after a cycle on 8XY7, VX
\* is (VY - VX) mod 256 and VF is 1 if VY was below VX and 0 if not.
C12_SubtractBorrowFlag ==
    LET vx == last.V[OpX(last.opcode)]
        vy == last.V[OpY(last.opcode)]
    IN  /\ IsArith(5) =>
               /\ V[OpX(last.opcode)] = (vx - vy) % U8
               /\ V[15] = (IF vx < vy THEN 1 ELSE 0)
        /\ IsArith(7) =>
               /\ V[OpX(last.opcode)] = (vy - vx) % U8
               /\ V[15] = (IF vy < vx THEN 1 ELSE 0)

\* a subtraction 8XY5 that borrowed: VX was below VY, the difference wrapped
C12_Witness ==
    /\ IsArith(5)
    /\ last.V[OpX(last.opcode)] < last.V[OpY(last.opcode)]
    /\ V[OpX(last.opcode)] > last.V[OpX(last.opcode)]
    /\ V[15] = 1

\* C13: a cycle on 7XNN or on 8XY4 never ends in a fault.  After 7XNN, VX is
\* (VX + NN) mod 256 and, for X # F, VF is as it was; after 8XY4 with X # F, VX is
\* (VX + VY) mod 256 and VF is 1 if VX + VY was above 255 and 0 if not.
C13_AdditionWraps ==
    LET x == OpX(last.opcode)
        vx == last.V[x]
        vy == last.V[OpY(last.opcode)]
        nn == OpNN(last.opcode)
    IN  /\ (IsCycle /\ OpGroup(last.opcode) = 7) =>
               /\ fault = "none"
               /\ V[x] = (vx + nn) % U8
               /\ x # 15 => V[15] = last.V[15]
        /\ (IsCycle /\ OpGroup(last.opcode) = 8 /\ OpN(last.opcode) = 4) => fault = "none"
        /\ IsArith(4) =>
               /\ V[x] = (vx + vy) % U8
               /\ V[15] = (IF vx + vy > 255 THEN 1 ELSE 0)

\* an addition 7XNN whose sum passed 255 and wrapped
C13_Witness ==
    /\ IsCycle /\ fault = "none" /\ OpGroup(last.opcode) = 7
    /\ last.V[OpX(last.opcode)] + OpNN(last.opcode) > 255
    /\ V[OpX(last.opcode)] < last.V[OpX(last.opcode)]

\* C14: after a cycle on 8XY6 with X # F, VF is bit 0 of VX (not of VY) as it was
\* before the cycle and VX is VY >> 1.
C14_ShiftRightFlag ==
    IsArith(6) =>
        /\ V[15] = last.V[OpX(last.opcode)] % 2
        /\ V[OpX(last.opcode)] = last.V[OpY(last.opcode)] \div 2

\* a shift 8XY6 with X # Y whose VX was odd and whose VY was even: the flag is that
\* of VX
C14_Witness ==
    /\ IsArith(6)
    /\ OpX(last.opcode) # OpY(last.opcode)
    /\ last.V[OpX(last.opcode)] % 2 = 1
    /\ last.V[OpY(last.opcode)] % 2 = 0
    /\ V[15] = 1

----------------------------------------------------------------------------
(* Properties of the timers *)

Max(a, b) == IF a > b THEN a ELSE b

RECURSIVE TickTimes(_, _)
\* k calls of Interconnect::tick one after the other
TickTimes(m, k) == IF k = 0 THEN m ELSE TickTimes(InterconnectTick(m), k - 1)

\* C15: a tick leaves each timer one lower when it was not zero and at zero when it
\* was zero, each independently of the other; k ticks in a row leave a timer that
\* held t at max(t - k, 0).  (last.arg holds the two timers before the tick.)
C15_TickFloorsAtZero ==
    /\ (last.kind = "tick") =>
           /\ delay_timer = Max(last.arg[1] - 1, 0)
           /\ sound_timer = Max(last.arg[2] - 1, 0)
    /\ \A k \in 0..MaxTicks :
           /\ TickTimes(Machine, k).delay_timer = Max(delay_timer - k, 0)
           /\ TickTimes(Machine, k).sound_timer = Max(sound_timer - k, 0)

\* a tick that found the delay timer above zero and the sound timer at zero
C15_Witness ==
    /\ last.kind = "tick"
    /\ last.arg[1] > 0 /\ last.arg[2] = 0
    /\ delay_timer = last.arg[1] - 1 /\ sound_timer = 0

\* op is FXnn for the given nn
IsF(op, nn) == op # NoOpcode /\ OpGroup(op) = 15 /\ OpNN(op) = nn

\* C16: a cycle leaves the delay timer as it was unless its opcode is FX15, which
\* sets it to VX, and the sound timer as it was unless its opcode is FX18, which sets
\* it to VX; setting a key and taking a frame leave both as they were.  A cycle on
\* FX07 that follows a cycle on FX15 directly reads back the value that was set.
\* Every opcode of TestOps, executed in a state where both timers run, leaves them
\* so.
C16_CycleKeepsTimers ==
    /\ [](\A op \in TestOps, checked \in BOOLEAN :
            (delay_timer > 0 /\ sound_timer > 0 /\ fault = "none") =>
                LET r == Decode(Machine, op, checked)
                IN  /\ r.delay_timer = (IF IsF(op, 21) THEN V[OpX(op)] ELSE delay_timer)
                    /\ r.sound_timer = (IF IsF(op, 24) THEN V[OpX(op)] ELSE sound_timer))
    /\ [][ /\ (last'.kind = "cycle") =>
                /\ delay_timer' = (IF IsF(last'.opcode, 21) THEN V[OpX(last'.opcode)]
                                   ELSE delay_timer)
                /\ sound_timer' = (IF IsF(last'.opcode, 24) THEN V[OpX(last'.opcode)]
                                   ELSE sound_timer)
           /\ (last'.kind \in {"key", "frame"}) =>
                  (delay_timer' = delay_timer /\ sound_timer' = sound_timer)
           /\ (last.kind = "cycle" /\ IsF(last.opcode, 21) /\ last'.kind = "cycle"
                   /\ IsF(last'.opcode, 7)) =>
                  V'[OpX(last'.opcode)] = last.V[OpX(last.opcode)] ]_vars

\* a cycle on FX07 read a delay timer that is still running, with the value it was
\* set to
C16_Witness ==
    /\ IsCycle /\ IsF(last.opcode, 7) /\ fault = "none"
    /\ V[OpX(last.opcode)] = delay_timer
    /\ delay_timer = V[1] /\ delay_timer > 0

----------------------------------------------------------------------------
(* Properties of the opcodes that access the memory *)

\* C17: a cycle on FX55 that ends without a fault copies V0..VX to the memory at
\* I .. I + X, changes no other byte and no register, and leaves I at I + X + 1; a
\* cycle on FX65 that ends without a fault loads V0..VX from the memory at
\* I .. I + X, changes no register above VX and no byte, and leaves I at I + X + 1.
\* After an FX55 at address A, a load FX65 with the same X from A into cleared
\* registers gives V0..VX the values that were dumped.
C17_RegisterDumpLoad ==
    /\ []((IsCycle /\ IsF(last.opcode, 85) /\ fault = "none") =>
            LET x == OpX(last.opcode)
                l == LoadRegs([Machine EXCEPT !.I = last.I, !.V = RegistersDefault], 0, x)
            IN  /\ l.fault = "none"
                /\ \A i \in 0..15 : l.V[i] = (IF i <= x THEN last.V[i] ELSE 0)
                /\ l.I = last.I + x + 1)
    /\ [][ (last'.kind = "cycle" /\ fault' = "none") =>
             LET x == OpX(last'.opcode)
             IN  /\ IsF(last'.opcode, 85) =>
                        /\ \A a \in 0..(RAM_SIZE - 1) :
                               ram'[a] = (IF a >= I /\ a <= I + x THEN V[a - I] ELSE ram[a])
                        /\ V' = V
                        /\ I' = I + x + 1
                 /\ IsF(last'.opcode, 101) =>
                        /\ \A i \in 0..15 : V'[i] = (IF i <= x THEN ram[I + i] ELSE V[i])
                        /\ ram' = ram
                        /\ I' = I + x + 1 ]_vars

\* a load FX65 with X > 0 that changed registers, from the memory a dump wrote
C17_Witness ==
    /\ IsCycle /\ IsF(last.opcode, 101) /\ fault = "none"
    /\ OpX(last.opcode) > 0
    /\ \A i \in 0..OpX(last.opcode) : V[i] = ram[last.I + i] /\ V[i] # last.V[i]
    /\ V[OpX(last.opcode) + 2] # 0
    /\ I = last.I + OpX(last.opcode) + 1

\* the three bytes of r from address a on are the decimal digits of v
IsBcd(r, a, v) ==
    /\ r[a] \in 0..9 /\ r[a + 1] \in 0..9 /\ r[a + 2] \in 0..9
    /\ 100 * r[a] + 10 * r[a + 1] + r[a + 2] = v

\* C18: after a cycle on FX33 that ends without a fault, the memory at I, I + 1 and
\* I + 2 holds the hundreds, the tens and the units of VX, and I and the registers
\* are as they were; the same cycle executed with any value 0 .. 255 in VX stores
\* the digits of that value.
C18_BcdDigits ==
    (IsCycle /\ IsF(last.opcode, 51) /\ fault = "none") =>
        LET x == OpX(last.opcode)
        IN  /\ IsBcd(ram, I, last.V[x])
            /\ I = last.I
            /\ V = last.V
            /\ \A v \in 0..(U8 - 1) :
                   LET r == CpuEmulateCycle([Machine EXCEPT !.pc = last.pc, !.V[x] = v],
                                            FALSE)
                   IN  /\ r.fault = "none"
                       /\ IsBcd(r.ram, I, v)
                       /\ r.I = I
                       /\ r.V = [V EXCEPT ![x] = v]

\* the digits 2, 5, 5 of 255 were stored
C18_Witness ==
    /\ IsCycle /\ IsF(last.opcode, 51) /\ fault = "none"
    /\ last.V[OpX(last.opcode)] = 255
    /\ ram[I] = 2 /\ ram[I + 1] = 5 /\ ram[I + 2] = 5

OutOfBounds == "index out of bounds"

\* C19: the memory is the 4096 bytes 0 .. 4095 and stays so.  A cycle whose fetch
\* needs a byte at 4096 or above, a cycle on DXYN with I + N > 4096 and a cycle on
\* FX33, FX55 or FX65 that needs a byte at 4096 or above end in an out-of-bounds
\* fault, with the program counter where it was.  Such a cycle changes no byte below
\* I (no address wraps around), and a faulted fetch or draw changes nothing at all.
C19_MemoryBoundsChecked ==
    /\ [](/\ DOMAIN ram = 0..(RAM_SIZE - 1)
          /\ (last.kind = "cycle" /\ last.pc + 1 >= RAM_SIZE) =>
                 (fault = OutOfBounds /\ last.opcode = NoOpcode /\ pc = last.pc)
          /\ (IsCycle /\ OpGroup(last.opcode) = 13 /\ last.I + OpN(last.opcode) > RAM_SIZE) =>
                 (fault = OutOfBounds /\ pc = last.pc)
          /\ (IsCycle /\ IsF(last.opcode, 51) /\ last.I + 2 >= RAM_SIZE) =>
                 (fault = OutOfBounds /\ pc = last.pc)
          /\ (IsCycle /\ (IsF(last.opcode, 85) \/ IsF(last.opcode, 101))
                  /\ last.I + OpX(last.opcode) >= RAM_SIZE) =>
                 (fault = OutOfBounds /\ pc = last.pc))
    /\ [][ (last'.kind = "cycle" /\ fault' = OutOfBounds) =>
             /\ \A a \in 0..(RAM_SIZE - 1) : a < I => ram'[a] = ram[a]
             /\ buf' = buf
             /\ (last'.opcode = NoOpcode \/ OpGroup(last'.opcode) = 13) =>
                    (ram' = ram /\ V' = V /\ I' = I /\ sp' = sp) ]_vars

\* the fetch at 0x1000, after the program counter ran off the end of the memory
C19_Witness ==
    /\ last.kind = "cycle" /\ last.opcode = NoOpcode
    /\ last.pc = RAM_SIZE
    /\ fault = OutOfBounds

----------------------------------------------------------------------------
(* Properties of the dirty flag *)

\* the step recorded in l called Gfx::clear: directly, or by a cycle on 00E0
CallsClear(l) == l.kind = "clear" \/ (l.kind = "cycle" /\ l.opcode = 224)

\* the step recorded in l, which ended with the fault flt, called Gfx::draw_sprite:
\* directly, or by a cycle on DXYN that got its sprite out of the memory
CallsDrawSprite(l, flt) ==
    l.kind = "draw" \/ (l.kind = "cycle" /\ l.opcode # NoOpcode /\ OpGroup(l.opcode) = 13
                            /\ flt = "none")

\* C20: the dirty flag is true after construction, after every clear and after
\* every draw_sprite, whether or not a pixel changed; it is false after every
\* get_frame; every other step (a tick, a key, a cycle on any other opcode) leaves it
\* as it was.
C20_DirtyFlagProtocol ==
    /\ []((last.kind = "init") => dirty)
    /\ [][ /\ (CallsClear(last') \/ CallsDrawSprite(last', fault')) => dirty'
           /\ (last'.kind = "frame") => ~dirty'
           /\ ~(CallsClear(last') \/ CallsDrawSprite(last', fault') \/ last'.kind = "frame")
                  => (dirty' = dirty) ]_vars

\* a draw that changed no pixel, after a frame was taken: the flag was false and is
\* true
C20_Witness ==
    /\ IsCycle /\ OpGroup(last.opcode) = 13 /\ fault = "none"
    /\ ~last.dirty /\ dirty
    /\ buf = GfxCleared /\ ~last.ret

----------------------------------------------------------------------------
(* Properties of the placement of sprites *)

\* origins past the width and the height, and origins next to the edges
WrapPlaceSet == { <<64, 32>>, <<255, 255>>, <<70, 33>>, <<130, 95>>, <<191, 63>> }

\* the pixels under the set bits of a sprite drawn at (x, y) that are on screen
Covered(x, y, data) ==
    {PixelAt(x, y, c[1], c[2]) : c \in
        {d \in (0..7) \X (0..(Len(data) - 1)) :
            OnScreen(x, y, d[1], d[2]) /\ SpriteBit(data, d[1], d[2])}}

\* C21: a draw at (x, y) changes the framebuffer and reports a collision as the
\* draw of the same sprite at (x mod 64, y mod 32) does; it toggles exactly the
\* pixels at column x mod 64 + dx and row y mod 32 + dy for which bit 7 - dx of the
\* byte dy of the sprite is set, and leaves every other pixel as it was.
C21_PlacementWraps ==
    \A p \in PlaceSet \cup WrapPlaceSet, data \in Sprites :
        LET r == GfxDrawSprite(buf, p[1], p[2], Len(data), data)
            w == GfxDrawSprite(buf, p[1] % W, p[2] % H, Len(data), data)
            cov == Covered(p[1], p[2], data)
        IN  /\ r = w
            /\ \A i \in 0..(W * H - 1) :
                   (r.buf[i] # 0) <=> ((buf[i] # 0) # (i \in cov))

\* a draw at an origin past the width and the height set the pixel at the wrapped
\* origin
C21_Witness ==
    /\ last.kind = "draw"
    /\ last.arg[1] >= W /\ last.arg[2] >= H
    /\ Bit(last.arg[4][1], 7) = 1
    /\ buf[(last.arg[2] % H) * W + (last.arg[1] % W)] # 0

\* origins from which a sprite reaches past the right edge, the bottom edge or both
EdgePlaceSet == { <<62, 0>>, <<0, 31>>, <<62, 31>>, <<60, 31>> }

\* the sprite pixels (dx, dy) of a sprite drawn at (x, y) that are past an edge
PastEdge(x, y, data) ==
    {d \in (0..7) \X (0..(Len(data) - 1)) : ~OnScreen(x, y, d[1], d[2])}

\* C22: a sprite pixel past the right or the bottom edge is dropped.  Gfx::set on
\* such a pixel leaves the framebuffer as it is and returns false; a draw changes no
\* pixel but those under its set bits that are on screen (none on the opposite
\* edge), and reports a collision exactly when one of those was set.
C22_ClippedPixelsDropped ==
    \A p \in PlaceSet \cup EdgePlaceSet, data \in Sprites :
        LET r == GfxDrawSprite(buf, p[1], p[2], Len(data), data)
            cov == Covered(p[1], p[2], data)
        IN  /\ \A d \in PastEdge(p[1], p[2], data) :
                   GfxSet(buf, (p[1] % W) + d[1], (p[2] % H) + d[2], 255)
                       = [buf |-> buf, ret |-> FALSE]
            /\ \A i \in 0..(W * H - 1) : i \notin cov => r.buf[i] = buf[i]
            /\ r.ret <=> Collides(buf, p[1], p[2], Len(data), data)

\* a draw with set bits past the right edge: the two columns on screen are set, and
\* the columns at the left edge of the same row, where the bits would wrap to, are
\* as they were
C22_Witness ==
    /\ last.kind = "draw"
    /\ last.arg[1] % W = 62 /\ last.arg[2] % H = 31
    /\ last.arg[4] = <<255>>
    /\ ~last.ret
    /\ buf[31 * W + 62] # 0 /\ buf[31 * W + 63] # 0
    /\ \A c \in 0..5 : buf[31 * W + c] = 0

----------------------------------------------------------------------------
(* Properties of the flag register and of the keys *)

\* the flag of 8XYn on the operands vx and vy: carry, borrow, or the bit shifted out
FlagOf(n, vx, vy) ==
    CASE n = 4 -> vx + vy > 255
      [] n = 5 -> vx < vy
      [] n = 6 -> vx % 2 = 1
      [] n = 7 -> vy < vx
      [] n = 14 -> Bit(vx, 7) = 1

\* C23: after a cycle on 8XY4, 8XY5, 8XY6, 8XY7 or 8XYE, VF is 0 or 1; when the
\* destination X is F, VF holds the flag of the operation on the operands as they
\* were before the cycle, and not its result.
C23_FlagWrittenLast ==
    (IsCycle /\ fault = "none" /\ OpGroup(last.opcode) = 8
         /\ OpN(last.opcode) \in {4, 5, 6, 7, 14}) =>
        /\ V[15] \in {0, 1}
        /\ OpX(last.opcode) = 15 =>
               V[15] = (IF FlagOf(OpN(last.opcode), last.V[15], last.V[OpY(last.opcode)])
                        THEN 1 ELSE 0)

\* C24: a cycle on EX9E or EXA1 leaves the keys as they were.  With VX in 0 .. 15,
\* EX9E advances the program counter by 4 if key VX is down and by 2 if not, and
\* EXA1 by 4 if key VX is not down and by 2 if it is.  With VX above 15 the cycle
\* ends in an out-of-bounds fault with the program counter where it was.
C24_KeySkips ==
    (IsCycle /\ OpGroup(last.opcode) = 14 /\ OpNN(last.opcode) \in {158, 161}) =>
        LET vx == last.V[OpX(last.opcode)]
            wantDown == OpNN(last.opcode) = 158
        IN  /\ keys = last.keys
            /\ vx <= 15 =>
                   /\ fault = "none"
                   /\ pc = last.pc + (IF last.keys[vx] = wantDown THEN 4 ELSE 2)
            /\ vx > 15 => (fault = OutOfBounds /\ pc = last.pc)

\* a cycle on EX9E that skipped for a key the driver had set down
C24_Witness ==
    /\ IsCycle /\ OpGroup(last.opcode) = 14 /\ OpNN(last.opcode) = 158
    /\ last.V[OpX(last.opcode)] <= 15
    /\ last.keys[last.V[OpX(last.opcode)]]
    /\ pc = last.pc + 4 /\ fault = "none"

----------------------------------------------------------------------------
(* The monolithic machine of main.rs: Chip8 with its own Gfx.  Its Ram, Registers
   and Stack and the arms of its emulate_cycle are the text of ram.rs and cpu.rs,
   but for three things: emulate_cycle begins with a tick, the tick saturates, and
   Gfx keeps no dirty flag and XORs the masked sprite bit itself into the pixel *)

\* Gfx::set of main.rs: XOR v into the pixel at (x, y) if it is on screen
MainGfxSet(b, x, y, v) ==
    IF x < W /\ y < H THEN [b EXCEPT ![y * W + x] = BitXor(b[y * W + x], v)] ELSE b

RECURSIVE MainGfxDrawRow(_, _, _, _, _)
\* the inner loop of Gfx::draw_sprite of main.rs over dx, from dx on: the bit
\* sprite_byte & (0x80 >> dx) is passed to set as it is, in place
MainGfxDrawRow(b, x, y, sprite_byte, dx) ==
    IF dx >= 8 THEN b
    ELSE LET bit == Bit(sprite_byte, 7 - dx) * Pow2(7 - dx)
             r == MainGfxSet(b, x + dx, y, bit)
         IN  IF r = b THEN MainGfxDrawRow(b, x, y, sprite_byte, dx + 1)
             ELSE MainGfxDrawRow(r, x, y, sprite_byte, dx + 1)

RECURSIVE MainGfxDrawFrom(_, _, _, _, _, _)
\* the outer loop of Gfx::draw_sprite of main.rs over dy, from dy on
MainGfxDrawFrom(b, x, y, height, data, dy) ==
    IF dy >= height THEN b
    ELSE LET r == MainGfxDrawRow(b, x, y + dy, data[dy + 1], 0)
         IN  IF r = b THEN MainGfxDrawFrom(b, x, y, height, data, dy + 1)
             ELSE MainGfxDrawFrom(r, x, y, height, data, dy + 1)

\* Gfx::draw_sprite of main.rs
MainGfxDrawSprite(b, x, y, height, data) ==
    MainGfxDrawFrom(b, x % W, y % H, height, data, 0)

\* Chip8::draw_sprite: the sprite at I is sliced out of the ram, then drawn
MainDrawSprite(m, vx, vy, n) ==
    LET s == RamGetSprite(m.ram, m.I, n)
    IN  IF s.fault # "none" THEN [m EXCEPT !.fault = s.fault]
        ELSE [m EXCEPT !.buf = MainGfxDrawSprite(m.buf, vx, vy, n, s.data)]

\* Chip8::tick: saturating_sub(1) on both timers
MainTick(m) ==
    [m EXCEPT !.delay_timer = IF m.delay_timer = 0 THEN 0 ELSE m.delay_timer - 1,
              !.sound_timer = IF m.sound_timer = 0 THEN 0 ELSE m.sound_timer - 1]

\* the match of Chip8::emulate_cycle: the arm 0xD000 draws with the Gfx of main.rs,
\* and no arm touches a dirty flag
MainDecode(m, opcode, checked) ==
    IF OpGroup(opcode) = 13
    THEN LET r == MainDrawSprite(m, m.V[OpX(opcode)], m.V[OpY(opcode)], OpN(opcode))
         IN  IF r.fault # "none" THEN r ELSE [r EXCEPT !.pc = m.pc + 2]
    ELSE [Decode(m, opcode, checked) EXCEPT !.dirty = m.dirty]

\* Chip8::emulate_cycle: tick, fetch, then decode and execute
MainEmulateCycle(m, checked) ==
    LET t == MainTick(m)
        f == FetchOpcode(t.ram, t.pc)
    IN  IF f.fault # "none" THEN Panic(t, f.fault) ELSE MainDecode(t, f.opcode, checked)

\* the programs the monolithic machine is run on
MainRoms == {TimerRom, DrawKeyRom, NestedRom, RegRom, DirtyRom}

\* Chip8::new
InitMain == \E rom \in MainRoms : Constructed(rom)

\* one call of Chip8::emulate_cycle.  last.arg holds the two timers before the call.
MainCycle ==
    /\ fault = "none"
    /\ \E checked \in BOOLEAN :
         LET f == FetchOpcode(ram, pc)
             op == IF f.fault = "none" THEN f.opcode ELSE NoOpcode
             m == MainEmulateCycle(Machine, checked)
         IN  /\ SetMachine(m)
             /\ last' = [NoLast("cycle") EXCEPT !.opcode = op, !.pc = pc, !.sp = sp,
                                                !.V = V, !.I = I, !.keys = keys,
                                                !.arg = <<delay_timer, sound_timer>>,
                                                !.dirty = dirty]
             /\ shadow' = ShadowAfter(shadow, op, pc, m.fault)

\* the loop of main: keys are set, cycles are run
NextMain == MainCycle \/ SetKey

SpecMain == InitMain /\ [][NextMain]_vars

----------------------------------------------------------------------------
(* The Gfx of main.rs driven directly, next to the Gfx of gfx.rs: shadow is the
   framebuffer that gfx.rs has after the same clears and draws *)

InitMainGfx ==
    /\ pc = PROG_ADDR
    /\ V = RegistersDefault
    /\ I = 0
    /\ st = StackNew.st
    /\ sp = StackNew.sp
    /\ ram = RamDefault
    /\ buf = GfxCleared
    /\ dirty = TRUE
    /\ delay_timer = 0
    /\ sound_timer = 0
    /\ keys = [k \in 0..15 |-> FALSE]
    /\ fault = "none"
    /\ last = NoLast("init")
    /\ shadow = GfxCleared

\* one call of clear on both
MainClear ==
    /\ buf' = GfxCleared
    /\ shadow' = GfxCleared
    /\ last' = NoLast("clear")
    /\ UNCHANGED <<pc, V, I, st, sp, ram, dirty, delay_timer, sound_timer, keys, fault>>

\* one call of draw_sprite on both, with the same arguments
MainDraw ==
    /\ \E p \in PlaceSet, data \in Sprites :
         /\ buf' = MainGfxDrawSprite(buf, p[1], p[2], Len(data), data)
         /\ shadow' = GfxDrawSprite(shadow, p[1], p[2], Len(data), data).buf
         /\ last' = [NoLast("draw") EXCEPT !.arg = <<p[1], p[2], Len(data), data>>]
    /\ UNCHANGED <<pc, V, I, st, sp, ram, dirty, delay_timer, sound_timer, keys, fault>>

NextMainGfx == MainClear \/ MainDraw

SpecMainGfx == InitMainGfx /\ [][NextMainGfx]_vars

----------------------------------------------------------------------------
(* Properties of the monolithic machine *)

\* C25: after any sequence of clears and draws, a pixel of the framebuffer of
\* main.rs is on exactly when the same pixel of the framebuffer of gfx.rs is on
\* after the same sequence, that is, when set sprite bits covered it an odd number
\* of times since the last clear.
C25_MainGfxIsOneBitXor ==
    \A i \in 0..(W * H - 1) : (buf[i] # 0) <=> (shadow[i] # 0)

\* C26: a call of Chip8::emulate_cycle leaves the delay timer as it was before the
\* call unless its opcode is FX15, which sets it to VX, and the sound timer as it
\* was unless its opcode is FX18; a cycle on FX07 puts into VX the delay timer as
\* it was before the call, so that FX15 followed by FX07 reads back what was
\* written.  (last.arg holds the two timers before the call.)
C26_MainCycleKeepsTimers ==
    (IsCycle /\ fault = "none") =>
        /\ delay_timer = (IF IsF(last.opcode, 21) THEN last.V[OpX(last.opcode)]
                          ELSE last.arg[1])
        /\ sound_timer = (IF IsF(last.opcode, 24) THEN last.V[OpX(last.opcode)]
                          ELSE last.arg[2])
        /\ IsF(last.opcode, 7) => V[OpX(last.opcode)] = last.arg[1]

====
